---------------------------- MODULE Spec2Model ----------------------------
(***************************************************************************)
(* A model of baseconvert (src/baseconvert/baseconvert.py): conversion of  *)
(* non-negative rational numbers between positional bases, with detection  *)
(* of recurring fractional digits.                                         *)
(*                                                                         *)
(* Python values are modelled as tagged pairs so that a tuple may hold     *)
(* digits and markers side by side, as the code's tuples do:               *)
(*     <<"int", n>>   the int n                                            *)
(*     <<"str", c>>   the one-character str whose code point is c          *)
(* A Python tuple is a sequence of such pairs; a Python str is the         *)
(* sequence of its one-character strs (what iterating over it yields).     *)
(* Python's 0-based s[a:b] is SubSeq(s, a + 1, b).                         *)
(***************************************************************************)
EXTENDS Integers, Sequences, FiniteSets

VARIABLES
    pc,           \* position of the current call
    number,       \* the number argument: [type |-> "tuple" | "str" | "int" | "float", val |-> ...]
    input_base,   \* base()/BaseConverter argument
    output_base,
    max_depth,
    string,
    recurring,
    min_repeat,   \* find_recurring argument
    repeat,       \* expand_recurring argument
    result,       \* what the call returned or raised: [kind |-> ..., val |-> ...]
    back          \* what the second call (on the first call's result) returned;
                  \* for a BaseConverter, what the call before the last returned

vars == <<pc, number, input_base, output_base, max_depth, string, recurring,
          min_repeat, repeat, result, back>>

-----------------------------------------------------------------------------
(* Python values *)

D(n) == <<"int", n>>
Chr(c) == <<"str", c>>
Dot == Chr(46)
LBr == Chr(91)
RBr == Chr(93)
Minus == Chr(45)

IsInt(e) == e[1] = "int"

Rev(s) == [i \in 1..Len(s) |-> s[Len(s) + 1 - i]]

\* `e in s`
Contains(s, e) == \E i \in 1..Len(s) : s[i] = e

\* s.index(e), 0-based; only used where `e in s`
Index(s, e) == (CHOOSE i \in 1..Len(s) : s[i] = e /\ \A j \in 1..(i - 1) : s[j] # e) - 1

\* s[a:] and s[:b] for 0 <= a, b
From(s, a) == SubSeq(s, a + 1, Len(s))
Upto(s, b) == SubSeq(s, 1, b)

\* s[:-m] for m > 0
DropLast(s, m) == SubSeq(s, 1, Len(s) - m)

\* s * n
Times(s, n) == [i \in 1..(Len(s) * n) |-> s[((i - 1) % Len(s)) + 1]]

\* s.count(e)
Count(s, e) == Cardinality({i \in 1..Len(s) : s[i] = e})

RECURSIVE Pow(_, _)
Pow(b, e) == IF e = 0 THEN 1 ELSE b * Pow(b, e - 1)

\* str(n) of an int n, as a str
RECURSIVE StrNat(_)
StrNat(n) == IF n < 10 THEN <<Chr(48 + n)>> ELSE StrNat(n \div 10) \o <<Chr(48 + (n % 10))>>

StrInt(n) == IF n < 0 THEN <<Minus>> \o StrNat(0 - n) ELSE StrNat(n)

\* str(x) of the float x nearest to q / 10 (|x| < 1e16, where repr is positional):
\* the shortest digits that read back as x, which are q's own: 0.1 -> "0.1", 1.0 -> "1.0"
StrFloat(q) ==
    LET a == IF q < 0 THEN 0 - q ELSE q
    IN  (IF q < 0 THEN <<Minus>> ELSE <<>>)
            \o StrNat(a \div 10) \o <<Dot>> \o <<Chr(48 + (a % 10))>>

-----------------------------------------------------------------------------
(* fractions.gcd: Euclid's algorithm *)

RECURSIVE gcd(_, _)
gcd(a, b) == IF b = 0 THEN a ELSE gcd(b, a % b)

-----------------------------------------------------------------------------
(* The digit codec *)

\* the decoding, were '0'..'9' not told apart from the letters
str_digit_to_int_letters(chr) ==
    LET n == chr[2]
    IN  IF n < 91 THEN n - 55 ELSE n - 61

str_digit_to_int(chr) ==
    LET n == chr[2]
    IN  IF n >= 48 /\ n <= 57 THEN n - 48
        ELSE IF n < 91 THEN n - 55
        ELSE n - 61

\* the encoding, were the letters a-z to follow on from Z (n + 55 throughout)
int_to_str_digit_upper(n) ==
    IF n < 10 THEN StrInt(n) ELSE <<Chr(n + 55)>>

\* returns a str: one character for n >= 0; str(n) has a sign for n < 0
int_to_str_digit(n) ==
    IF n < 10 THEN StrInt(n)
    ELSE IF n < 36 THEN <<Chr(n + 55)>>
    ELSE <<Chr(n + 61)>>

keep == {Dot, LBr, RBr}

represent_as_tuple(s) ==
    [i \in 1..Len(s) |-> IF s[i] \notin keep THEN D(str_digit_to_int(s[i])) ELSE s[i]]

RECURSIVE represent_as_string(_)
represent_as_string(iterable) ==
    IF iterable = <<>> THEN <<>>
    ELSE (IF Head(iterable) \notin keep THEN int_to_str_digit(Head(iterable)[2])
          ELSE <<Head(iterable)>>) \o represent_as_string(Tail(iterable))

-----------------------------------------------------------------------------
(* Integers *)

digit(decimal, dgt, base) ==
    IF decimal = 0 THEN 0
    ELSE IF dgt # 0 THEN (decimal \div Pow(base, dgt)) % base
    ELSE decimal % base

RECURSIVE digitsLoop(_, _, _)
digitsLoop(n, base, count) ==
    IF n >= 1 THEN digitsLoop(n \div base, base, count + 1) ELSE count

digits(n, base) == IF n < 1 THEN 0 ELSE digitsLoop(n, base, 0)

integer_fractional_parts(n) ==
    LET radix_point == Index(n, Dot)
    IN  <<Upto(n, radix_point), From(n, radix_point)>>

\* the conversion, were the digits left lowest first (converted, not converted[::-1])
from_base_10_int_unreversed(decimal, base) ==
    IF decimal <= 0 THEN <<D(0)>>
    ELSE IF base = 1 THEN Times(<<D(1)>>, decimal)
    ELSE [i \in 1..digits(decimal, base) |-> D(digit(decimal, i - 1, base))]

from_base_10_int(decimal, base) ==
    IF decimal <= 0 THEN <<D(0)>>
    ELSE IF base = 1 THEN Times(<<D(1)>>, decimal)
    ELSE LET length == digits(decimal, base)
             converted == [i \in 1..length |-> D(digit(decimal, i - 1, base))]
         IN  Rev(converted)

RECURSIVE SumFrom(_, _, _)
\* sum(c * input_base ** i for i, c in enumerate(r)), from position i on
SumFrom(r, base, i) ==
    IF i >= Len(r) THEN 0
    ELSE r[i + 1][2] * Pow(base, i) + SumFrom(r, base, i + 1)

\* the sum, were the digits weighted highest last (enumerate(n), not enumerate(n[::-1]))
to_base_10_int_forward(n, base) == SumFrom(n, base, 0)

to_base_10_int(n, base) == SumFrom(Rev(n), base, 0)

integer_base(n, from_base, to_base) ==
    from_base_10_int(to_base_10_int(n, from_base), to_base)

-----------------------------------------------------------------------------
(* Fractions *)

RECURSIVE numeratorFrom(_, _, _)
\* for i, value in enumerate(fractional_part, 1):
\*     numerator += value * input_base ** (fractional_digits - i)
numeratorFrom(fp, base, i) ==
    IF i > Len(fp) THEN 0
    ELSE fp[i][2] * Pow(base, Len(fp) - i) + numeratorFrom(fp, base, i + 1)

RECURSIVE fractionalLoopRounding(_, _, _, _, _, _)
\* the loop, were each digit rounded to the nearest instead of cut
fractionalLoopRounding(numerator, denominator, i, ds, base, depth) ==
    IF i < depth + 1
    THEN LET n1 == numerator * Pow(base, i)
             dg == (2 * n1 + denominator) \div (2 * denominator)
             n2 == n1 - dg * denominator
             d2 == denominator * Pow(base, i)
             g  == gcd(n2, d2)
         IN  fractionalLoopRounding(n2 \div g, d2 \div g, i + 1, Append(ds, D(dg)), base, depth)
    ELSE ds

RECURSIVE fractionalLoop(_, _, _, _, _, _)
\* while (i < max_depth + 1): one digit per turn, then reduce by the gcd
fractionalLoop(numerator, denominator, i, ds, base, depth) ==
    IF i < depth + 1
    THEN LET n1 == numerator * Pow(base, i)
             dg == n1 \div denominator
             n2 == n1 - dg * denominator
             d2 == denominator * Pow(base, i)
             g  == gcd(n2, d2)
         IN  fractionalLoop(n2 \div g, d2 \div g, i + 1, Append(ds, D(dg)), base, depth)
    ELSE ds

\* the conversion, were the loop to take one turn more (i <= max_depth + 1)
fractional_base_deeper(fractional_part, from_base, to_base, depth) ==
    LET fp == From(fractional_part, 1)
    IN  <<Dot>> \o fractionalLoop(numeratorFrom(fp, from_base, 1), Pow(from_base, Len(fp)),
                                  1, <<>>, to_base, depth + 1)

fractional_base(fractional_part, from_base, to_base, depth) ==
    LET fp == From(fractional_part, 1)
        numerator == numeratorFrom(fp, from_base, 1)
        denominator == Pow(from_base, Len(fp))
    IN  <<Dot>> \o fractionalLoop(numerator, denominator, 1, <<>>, to_base, depth)

RECURSIVE trailingZeros(_, _)
\* for digit in n[-1::-1]: if digit != 0: break; count += 1
trailingZeros(n, i) ==
    IF i >= 1 /\ n[i] = D(0) THEN 1 + trailingZeros(n, i - 1) ELSE 0

truncate(n) ==
    LET count == trailingZeros(n, Len(n))
    IN  IF count > 0 THEN DropLast(n, count) ELSE n

-----------------------------------------------------------------------------
(* Recurring digits *)

RECURSIVE patternMatches(_, _, _, _)
\* for i, pattern_digit in enumerate(pattern):
\*     if sequence[digit + i] != pattern_digit: break   (0-based)
patternMatches(sequence, pattern, dgt, i) ==
    IF i >= Len(pattern) THEN TRUE
    ELSE IF sequence[dgt + i + 1] # pattern[i + 1] THEN FALSE
    ELSE patternMatches(sequence, pattern, dgt, i + 1)

RECURSIVE repeatLoop(_, _, _, _)
\* while (pattern_match and digit < len(sequence)): count the copies of pattern
repeatLoop(sequence, period, dgt, rep) ==
    IF dgt < Len(sequence) /\ patternMatches(sequence, Upto(sequence, period), dgt, 0)
    THEN repeatLoop(sequence, period, dgt + period, rep + 1)
    ELSE rep

RECURSIVE periodLoopByRepeat(_, _, _)
\* the search, were a pattern ranked by its repeats alone (rank = repeat)
periodLoopByRepeat(sequence, period, best) ==
    IF period < Len(sequence)
    THEN LET p == period + 1
             rep == repeatLoop(sequence, p, p, 0)
         IN  IF rep > best.best
             THEN periodLoopByRepeat(sequence, p, [best |-> rep, best_period |-> p, best_repeat |-> rep])
             ELSE periodLoopByRepeat(sequence, p, best)
    ELSE best

RECURSIVE periodLoop(_, _, _)
\* while (period < len(sequence)): rank every period, keep the first best
periodLoop(sequence, period, best) ==
    IF period < Len(sequence)
    THEN LET p == period + 1
             rep == repeatLoop(sequence, p, p, 0)
             rank == p * rep
         IN  IF rank > best.best
             THEN periodLoop(sequence, p, [best |-> rank, best_period |-> p, best_repeat |-> rep])
             ELSE periodLoop(sequence, p, best)
    ELSE best

RECURSIVE alignLoop(_, _, _, _)
\* for i, digit in enumerate(pattern): if number[-1] == digit: drop it, rotate pattern_temp
alignLoop(pattern, i, n, pattern_temp) ==
    IF i > Len(pattern) THEN <<n, pattern_temp>>
    ELSE IF n[Len(n)] = pattern[i]
         THEN alignLoop(pattern, i + 1, DropLast(n, 1), Tail(pattern_temp) \o <<Head(pattern_temp)>>)
         ELSE alignLoop(pattern, i + 1, n, pattern_temp)

find_recurring(n, minrep) ==
    IF ~Contains(n, Dot) \/ minrep < 1 THEN n
    ELSE LET parts == integer_fractional_parts(n)
             integer_part == parts[1]
             fractional_part == parts[2]
             sequence == Rev(fractional_part)
             b == periodLoop(sequence, 0, [best |-> 0, best_period |-> 0, best_repeat |-> 0])
         IN  IF b.best_repeat < minrep THEN n
             ELSE LET pattern == Upto(sequence, b.best_period)
                      kept == integer_part \o DropLast(fractional_part, b.best + b.best_period)
                      a == alignLoop(pattern, 1, kept, pattern)
                  IN  a[1] \o <<LBr>> \o Rev(a[2]) \o <<RBr>>

expand_recurring(n, rep) ==
    IF Contains(n, LBr)
    THEN LET pattern_index == Index(n, LBr)
             pattern == SubSeq(n, pattern_index + 2, Len(n) - 1)
         IN  Upto(n, pattern_index) \o Times(pattern, rep + 1)
    ELSE n

-----------------------------------------------------------------------------
(* Validation and the conversion itself *)

\* the check, were a digit equal to the base let through (n > input_base)
check_valid_above(n, base) ==
    \A i \in 1..Len(n) :
        \/ n[i] \in keep
        \/ ~(n[i][2] > base)
        \/ (n[i] = D(1) /\ base = 1)

check_valid(n, base) ==
    \A i \in 1..Len(n) :
        \/ n[i] \in keep
        \/ ~(n[i][2] >= base)
        \/ (n[i] = D(1) /\ base = 1)

Raise(e) == [kind |-> e, val |-> <<>>]
Return(k, v) == [kind |-> k, val |-> v]

\* str(number) for a number given as an int or a float
str(num) == IF num.type = "int" THEN StrInt(num.val[1][2]) ELSE StrFloat(num.val[1][2])

base(num, from_base, to_base, depth, as_string, rec) ==
    LET n0 == IF num.type \in {"int", "float"} THEN [type |-> "str", val |-> str(num)] ELSE num
        n1 == IF n0.type = "str" THEN represent_as_tuple(n0.val) ELSE n0.val
    IN  IF ~check_valid(n1, from_base) THEN Raise("ValueError")
        ELSE LET n2 == IF from_base = 1 THEN Times(<<D(1)>>, Count(n1, D(1))) ELSE n1
                 n3 == expand_recurring(n2, 5)
                 n4 == IF Contains(n3, Dot)
                       THEN LET radix_point == Index(n3, Dot)
                                integer_part == integer_base(Upto(n3, radix_point), from_base, to_base)
                                fractional_part == fractional_base(From(n3, radix_point),
                                                                   from_base, to_base, depth)
                            IN  truncate(integer_part \o fractional_part)
                       ELSE integer_base(n3, from_base, to_base)
                 n5 == IF rec THEN find_recurring(n4, 2) ELSE n4
             IN  IF as_string THEN Return("str", represent_as_string(n5))
                 ELSE Return("tuple", n5)

-----------------------------------------------------------------------------
(* Bounds of the model *)

MaxBase == 4      \* bases 1..MaxBase
MaxDepth == 3     \* max_depth 0..MaxDepth
MaxFrac == 3      \* fractional digits of an input of base() and fractional_base()
MaxNum == 11      \* magnitude of an int input, and of a float input in tenths
MaxIntLen == 3    \* digits of an input of integer_base()
MaxRecLen == 8    \* fractional digits of an input of find_recurring()
MaxRecDigit == 1  \* highest digit value of an input of find_recurring()
MaxRepeat == 2    \* min_repeat and repeat 0..MaxRepeat
MaxDigit == 199   \* highest digit value put through the digit codec
MaxCodecLen == 3  \* elements of a digit sequence put through the digit codec

Bases == 1..MaxBase
Depths == 0..MaxDepth

\* all sequences over S of length lo..hi
Seqs(S, lo, hi) == UNION {[1..n -> S] : n \in lo..hi}

-----------------------------------------------------------------------------
(* Inputs of base(): tuples, strings, ints and floats *)

Tuple(t) == [type |-> "tuple", val |-> t]
Str(t) == [type |-> "str", val |-> t]

\* digit values that check_valid admits for base b, negative ones apart
HighDigit(b) == IF b = 1 THEN 1 ELSE b - 1
ValidDigits(b) == {D(d) : d \in 0..HighDigit(b)}
\* and the nearest ones outside: one too high, one negative
AnyDigits(b) == ValidDigits(b) \cup {D(HighDigit(b) + 1), D(0 - 1)}

\* numbers of valid digits, with up to MaxFrac fractional digits; the integer part
\* is empty, 0 or the highest digit
ValidTuples(b) ==
    {i \o f : i \in {<<>>, <<D(0)>>, <<D(HighDigit(b))>>},
              f \in {<<>>} \cup {<<Dot>> \o g : g \in Seqs(ValidDigits(b), 0, MaxFrac)}}
\* short numbers of any digits
AnyTuples(b) ==
    {i \o f : i \in Seqs(AnyDigits(b), 0, 1),
              f \in {<<>>} \cup {<<Dot>> \o g : g \in Seqs(AnyDigits(b), 0, 1)}}
\* numbers that already carry a recurring pattern
RecurringTuples(b) ==
    {<<D(0), Dot>> \o f \o <<LBr, d, RBr>> : f \in Seqs(ValidDigits(b), 0, 1), d \in ValidDigits(b)}

TupleInputs(b) == ValidTuples(b) \cup AnyTuples(b) \cup RecurringTuples(b)

StrInputs(b) ==
    {represent_as_string(t) : t \in {u \in AnyTuples(b) : \A i \in 1..Len(u) : u[i] # D(0 - 1)}}
        \cup {<<Minus>> \o represent_as_string(<<d, Dot, e>>) : d, e \in ValidDigits(b)}

\* the ints n and the floats q / 10
Numbers == {[type |-> "int", val |-> <<D(n)>>] : n \in (0 - 1)..MaxNum}
             \cup {[type |-> "float", val |-> <<<<"tenths", q>>>>] : q \in (0 - 1)..MaxNum}

Inputs(b) == {Tuple(t) : t \in TupleInputs(b)} \cup {Str(t) : t \in StrInputs(b)} \cup Numbers

None == [kind |-> "None", val |-> <<>>]

-----------------------------------------------------------------------------
(* Calls of base(): the call, and a second call that feeds the result back *)

Init ==
    /\ pc = "ready"
    /\ input_base \in Bases
    /\ output_base \in Bases
    /\ max_depth \in Depths
    /\ string \in BOOLEAN
    /\ recurring \in BOOLEAN
    /\ number \in Inputs(input_base)
    /\ min_repeat = 2
    /\ repeat = 5
    /\ result = None
    /\ back = None

\* result = base(number, input_base, output_base, max_depth, string, recurring)
Base ==
    /\ pc = "ready"
    /\ result' = base(number, input_base, output_base, max_depth, string, recurring)
    /\ pc' = "done"
    /\ UNCHANGED <<number, input_base, output_base, max_depth, string, recurring,
                   min_repeat, repeat, back>>

\* back = base(result, output_base, input_base, max_depth, string, recurring)
BaseBack ==
    /\ pc = "done"
    /\ result.kind # "ValueError"
    /\ back' = base([type |-> result.kind, val |-> result.val], output_base, input_base,
                    max_depth, string, recurring)
    /\ pc' = "back"
    /\ UNCHANGED <<number, input_base, output_base, max_depth, string, recurring,
                   min_repeat, repeat, result>>

Next == Base \/ BaseBack

Spec == Init /\ [][Next]_vars

-----------------------------------------------------------------------------
(* Calls of integer_base() *)

InitInteger ==
    /\ pc = "ready"
    /\ input_base \in Bases
    /\ output_base \in Bases
    /\ number \in {Tuple(t) : t \in Seqs(ValidDigits(input_base), 0, MaxIntLen)}
    /\ max_depth = 0
    /\ string = FALSE
    /\ recurring = FALSE
    /\ min_repeat = 2
    /\ repeat = 5
    /\ result = None
    /\ back = None

\* result = integer_base(number, input_base, output_base)
IntegerBase ==
    /\ pc = "ready"
    /\ result' = Return("tuple", integer_base(number.val, input_base, output_base))
    /\ pc' = "done"
    /\ UNCHANGED <<number, input_base, output_base, max_depth, string, recurring,
                   min_repeat, repeat, back>>

SpecInteger == InitInteger /\ [][IntegerBase]_vars

-----------------------------------------------------------------------------
(* Calls of fractional_base() *)

InitFractional ==
    /\ pc = "ready"
    /\ input_base \in Bases
    /\ output_base \in Bases
    /\ max_depth \in Depths
    /\ number \in {Tuple(<<Dot>> \o f) : f \in Seqs(ValidDigits(input_base), 0, MaxFrac)}
    /\ string = FALSE
    /\ recurring = FALSE
    /\ min_repeat = 2
    /\ repeat = 5
    /\ result = None
    /\ back = None

\* result = fractional_base(number, input_base, output_base, max_depth)
FractionalBase ==
    /\ pc = "ready"
    /\ result' = Return("tuple", fractional_base(number.val, input_base, output_base, max_depth))
    /\ pc' = "done"
    /\ UNCHANGED <<number, input_base, output_base, max_depth, string, recurring,
                   min_repeat, repeat, back>>

SpecFractional == InitFractional /\ [][FractionalBase]_vars

-----------------------------------------------------------------------------
(* Calls of find_recurring(), and of expand_recurring() on what it returned *)

RecurringDigits == {D(d) : d \in 0..MaxRecDigit}

InitRecurring ==
    /\ pc = "ready"
    /\ number \in {Tuple(i \o <<Dot>> \o f) : i \in Seqs(RecurringDigits, 0, 1),
                                             f \in Seqs(RecurringDigits, 0, MaxRecLen)}
    /\ min_repeat \in 0..MaxRepeat
    /\ input_base = 10
    /\ output_base = 10
    /\ max_depth = 10
    /\ string = FALSE
    /\ recurring = TRUE
    /\ repeat = 5
    /\ result = None
    /\ back = None

\* result = find_recurring(number, min_repeat)
FindRecurring ==
    /\ pc = "ready"
    /\ result' = Return("tuple", find_recurring(number.val, min_repeat))
    /\ pc' = "done"
    /\ UNCHANGED <<number, input_base, output_base, max_depth, string, recurring,
                   min_repeat, repeat, back>>

\* back = expand_recurring(result, n)
ExpandRecurring ==
    /\ pc = "done"
    /\ \E n \in 0..MaxRepeat :
        /\ repeat' = n
        /\ back' = Return("tuple", expand_recurring(result.val, n))
    /\ pc' = "back"
    /\ UNCHANGED <<number, input_base, output_base, max_depth, string, recurring,
                   min_repeat, result>>

NextRecurring == FindRecurring \/ ExpandRecurring

SpecRecurring == InitRecurring /\ [][NextRecurring]_vars

-----------------------------------------------------------------------------
(* Calls of represent_as_string(), and of represent_as_tuple() and base() on *)
(* the string it returned                                                   *)

\* every digit value alone; and sequences of the markers and of the digit values
\* at the ends of the codec's three ranges
CodecDigits == {D(n) : n \in {0, 9, 10, 35, 36, 61, MaxDigit}}
CodecTuples ==
    Seqs({D(n) : n \in 0..MaxDigit}, 1, 1) \cup Seqs(CodecDigits \cup keep, 0, MaxCodecLen)

\* the form base() takes: (int, ..., '.', ..., int), the fraction's end enclosed
\* by '[' and ']' where it recurs
NumberForm(t) ==
    /\ Count(t, Dot) <= 1 /\ Count(t, LBr) <= 1 /\ Count(t, RBr) = Count(t, LBr)
    /\ Contains(t, LBr) =>
           (Contains(t, Dot) /\ Index(t, Dot) < Index(t, LBr) /\ t[Len(t)] = RBr)

InitCodec ==
    /\ pc = "ready"
    /\ number \in {Tuple(t) : t \in CodecTuples}
    /\ input_base \in (IF Contains(number.val, LBr) THEN {2} ELSE {2, 36, 62, MaxDigit + 1})
    /\ output_base \in {2, 10}
    /\ max_depth \in 0..1
    /\ string \in BOOLEAN
    /\ recurring \in BOOLEAN
    /\ min_repeat = 2
    /\ repeat = 5
    /\ result = None
    /\ back = None

\* result = represent_as_string(number)
RepresentAsString ==
    /\ pc = "ready"
    /\ result' = Return("str", represent_as_string(number.val))
    /\ pc' = "encoded"
    /\ UNCHANGED <<number, input_base, output_base, max_depth, string, recurring,
                   min_repeat, repeat, back>>

\* back = represent_as_tuple(result)
RepresentAsTuple ==
    /\ pc = "encoded"
    /\ back' = Return("tuple", represent_as_tuple(result.val))
    /\ pc' = "decoded"
    /\ UNCHANGED <<number, input_base, output_base, max_depth, string, recurring,
                   min_repeat, repeat, result>>

\* back = base(result, input_base, output_base, max_depth, string, recurring)
BaseOfString ==
    /\ pc = "encoded"
    /\ NumberForm(number.val)
    /\ back' = base(Str(result.val), input_base, output_base, max_depth, string, recurring)
    /\ pc' = "converted"
    /\ UNCHANGED <<number, input_base, output_base, max_depth, string, recurring,
                   min_repeat, repeat, result>>

NextCodec == RepresentAsString \/ RepresentAsTuple \/ BaseOfString

SpecCodec == InitCodec /\ [][NextCodec]_vars

-----------------------------------------------------------------------------
(* A BaseConverter, called again and again. Its attributes are the variables *)
(* input_base, output_base, max_depth, string and recurring.                *)

\* BaseConverter.__init__: the attributes of the new object
__init__(ib, ob, depth, as_string, rec) ==
    [input_base |-> ib, output_base |-> ob, max_depth |-> depth,
     string |-> as_string, recurring |-> rec]

\* the call, were the two bases handed to base() the wrong way round
__call__swapped(self, num) ==
    base(num, self.output_base, self.input_base, self.max_depth, self.string, self.recurring)

\* BaseConverter.__call__
__call__(self, num) ==
    base(num, self.input_base, self.output_base, self.max_depth, self.string, self.recurring)

\* the object as its attributes stand
Self == __init__(input_base, output_base, max_depth, string, recurring)

\* numbers to call it with: tuples, their strings, ints and a float, some of
\* them with a digit too high for the base b
ConverterTuples(b) ==
    {<<D(1)>>, <<D(HighDigit(b)), Dot, D(1)>>, <<Dot, D(HighDigit(b))>>,
     <<D(HighDigit(b) + 1)>>, <<D(0), Dot, D(HighDigit(b) + 1)>>}
ConverterInputs(b) ==
    {Tuple(t) : t \in ConverterTuples(b)}
        \cup {Str(represent_as_string(t)) : t \in ConverterTuples(b)}
        \cup {n \in Numbers : n.val[1][2] \in {1, MaxNum}}

NoNumber == [type |-> "None", val |-> <<>>]

\* b = BaseConverter(input_base, output_base, max_depth, string, recurring)
InitConverter ==
    /\ pc = "constructed"
    /\ \E self \in {__init__(ib, ob, depth, as_string, rec) :
                        ib \in Bases, ob \in Bases, depth \in Depths,
                        as_string \in BOOLEAN, rec \in BOOLEAN} :
        /\ input_base = self.input_base
        /\ output_base = self.output_base
        /\ max_depth = self.max_depth
        /\ string = self.string
        /\ recurring = self.recurring
    /\ number = NoNumber
    /\ min_repeat = 2
    /\ repeat = 5
    /\ result = None
    /\ back = None

\* result = b(x)
Call ==
    /\ pc \in {"constructed", "called"}
    /\ \E x \in ConverterInputs(input_base) :
        /\ number' = x
        /\ result' = __call__(Self, x)
    /\ back' = result
    /\ pc' = "called"
    /\ UNCHANGED <<input_base, output_base, max_depth, string, recurring,
                   min_repeat, repeat>>

SpecConverter == InitConverter /\ [][Call]_vars

-----------------------------------------------------------------------------
(* Reading a digit sequence: its parts and the rational number it denotes *)

\* the digit sequence of an input or a result, whichever way it is represented
Digits(x, how) == IF how = "str" THEN represent_as_tuple(x) ELSE x
InputDigits == Digits(number.val, number.type)
ResultDigits == Digits(result.val, result.kind)
BackDigits == Digits(back.val, back.kind)

DigitInput == number.type \in {"tuple", "str"}
HasMarkers(t) == Contains(t, LBr) \/ Contains(t, RBr)
\* every digit element is a digit of base b
DigitsBelow(t, b) == \A i \in 1..Len(t) : IsInt(t[i]) => (t[i][2] >= 0 /\ t[i][2] < b)

First(t, e) == IF Contains(t, e) THEN Index(t, e) + 1 ELSE Len(t) + 1
\* digits before the point; between the point and '['; between '[' and ']'
IntegerDigits(t) == SubSeq(t, 1, First(t, Dot) - 1)
PlainDigits(t) == SubSeq(t, First(t, Dot) + 1, First(t, LBr) - 1)
PatternDigits(t) == SubSeq(t, First(t, LBr) + 1, Len(t) - 1)
\* all digits after the point, markers left out
FractionDigits(t) == PlainDigits(t) \o PatternDigits(t)

RECURSIVE Horner(_, _)
Horner(ds, b) == IF ds = <<>> THEN 0 ELSE Horner(DropLast(ds, 1), b) * b + ds[Len(ds)][2]

\* the value of t in base b, a bracketed part read as repeating for ever, is
\* Numerator(t, b) / Denominator(t, b)
Nines(t, b) == IF PatternDigits(t) = <<>> THEN 1 ELSE Pow(b, Len(PatternDigits(t))) - 1
Denominator(t, b) == Pow(b, Len(PlainDigits(t))) * Nines(t, b)
Numerator(t, b) ==
    Horner(IntegerDigits(t), b) * Denominator(t, b)
        + Horner(PlainDigits(t), b) * Nines(t, b) + Horner(PatternDigits(t), b)
SameValue(t, b, u, c) == Numerator(t, b) * Denominator(u, c) = Numerator(u, c) * Denominator(t, b)

\* the value of t (no markers) in base b takes at most k fractional digits in base c
ExactIn(t, b, c, k) == (Horner(PlainDigits(t), b) * Pow(c, k)) % Pow(b, Len(PlainDigits(t))) = 0

-----------------------------------------------------------------------------
(* C1: value preservation *)

\* a valid input without markers, bases >= 2, recurring=True, whose value takes at
\* most max_depth fractional digits in the output base
C1_Case ==
    /\ DigitInput /\ ~HasMarkers(InputDigits)
    /\ input_base >= 2 /\ output_base >= 2
    /\ DigitsBelow(InputDigits, input_base)
    /\ recurring
    /\ ExactIn(InputDigits, input_base, output_base, max_depth)

\* C1: base() with recurring=True preserves the value of every valid input
\* without markers (bases >= 2) whose value takes at most max_depth fractional
\* digits in the output base: the result, a bracketed part read as repeating
\* for ever, denotes the input's value.
C1_ValuePreserved ==
    (pc = "done" /\ C1_Case) =>
        /\ result.kind # "ValueError"
        /\ SameValue(InputDigits, input_base, ResultDigits, output_base)

-----------------------------------------------------------------------------
(* C2: the round trip b1 -> b2 -> b1 with recurring=False *)

RECURSIVE StripLeading(_)
StripLeading(ds) == IF ds # <<>> /\ Head(ds) = D(0) THEN StripLeading(Tail(ds)) ELSE ds
StripTrailing(ds) == Rev(StripLeading(Rev(ds)))

\* a digit sequence without its leading integer zeros and trailing fractional zeros
Norm(t) ==
    StripLeading(IntegerDigits(t))
        \o (IF Contains(t, Dot) THEN <<Dot>> ELSE <<>>)
        \o StripTrailing(FractionDigits(t))

\* r is a valid base-b1 digit sequence with at most max_depth fractional digits,
\* converted to b2 and back with recurring=False
C2_Case ==
    /\ pc = "back"
    /\ DigitInput /\ ~HasMarkers(InputDigits)
    /\ input_base >= 2 /\ output_base >= 2
    /\ DigitsBelow(InputDigits, input_base)
    /\ Len(PlainDigits(InputDigits)) <= max_depth
    /\ ~recurring /\ ~string

C2_Reproduced == back.kind # "ValueError" /\ Norm(BackDigits) = Norm(InputDigits)

\* C2 as stated: every such r is reproduced, up to leading integer zeros and
\* trailing fractional zeros.
C2_RoundTrip == C2_Case => C2_Reproduced

\* C2 amended: every such r whose value also takes at most max_depth fractional
\* digits in base b2 is reproduced, up to leading integer zeros and trailing
\* fractional zeros.
C2_RoundTripExact ==
    (C2_Case /\ ExactIn(InputDigits, input_base, output_base, max_depth)) => C2_Reproduced

\* a fraction that is exact in another base went there and came back
C2_Witness ==
    /\ C2_Case /\ ExactIn(InputDigits, input_base, output_base, max_depth)
    /\ input_base # output_base
    /\ StripTrailing(FractionDigits(InputDigits)) # <<>>
    /\ Len(FractionDigits(ResultDigits)) > Len(StripTrailing(FractionDigits(InputDigits)))
    /\ C2_Reproduced

-----------------------------------------------------------------------------
(* C3: detection, then expansion *)

Min(a, b) == IF a < b THEN a ELSE b

\* C3: find_recurring followed by expand_recurring gives back the digits it was
\* given: for min_repeat >= 1, if find_recurring(y, min_repeat) carries markers
\* then every expansion agrees with y at every position both have, and without
\* markers it is y itself.
C3_Reconstructs ==
    (pc = "back" /\ min_repeat >= 1) =>
        IF Contains(result.val, LBr)
        THEN \A i \in 1..Min(Len(back.val), Len(number.val)) : back.val[i] = number.val[i]
        ELSE result.val = number.val

-----------------------------------------------------------------------------
(* C4: truncation *)

\* floor(x * c^k) for the fraction x that the digits f denote in base b
Floor(f, b, c, k) == (Horner(f, b) * Pow(c, k)) \div Pow(b, Len(f))
\* what x * c^k leaves behind the floor, in units of 1 / b^Len(f)
Rest(f, b, c, k) == (Horner(f, b) * Pow(c, k)) % Pow(b, Len(f))

\* C4: fractional_base cuts and never rounds. For bases >= 2 and a fraction x of
\* digits below b1, the result is '.' and exactly max_depth digits, the base-b2
\* digits of floor(x * b2^max_depth), each in 0..b2-1; the gcd reduction plays
\* no part in them.
C4_Truncates ==
    (pc = "done" /\ input_base >= 2 /\ output_base >= 2) =>
        LET F == Floor(From(number.val, 1), input_base, output_base, max_depth)
        IN  result.val = <<Dot>> \o [i \in 1..max_depth |->
                                        D((F \div Pow(output_base, max_depth - i)) % output_base)]

\* digits were cut where rounding to the nearest would have gone up
C4_Witness ==
    /\ pc = "done" /\ input_base >= 2 /\ output_base >= 2 /\ input_base # output_base
    /\ max_depth >= 2
    /\ 2 * Rest(From(number.val, 1), input_base, output_base, max_depth)
           >= Pow(input_base, Len(number.val) - 1)
    /\ Len(result.val) = max_depth + 1
    /\ result.val[Len(result.val)] # D(0)

-----------------------------------------------------------------------------
(* C5: the integer part *)

Ones(n) == [i \in 1..n |-> D(1)]

\* C5: integer_base is exact for all bases >= 1. With N the value of the digits d
\* in from_base: for to_base >= 2 the result is the representation of N, highest
\* digit first, digits below to_base, no leading zero, and the single digit 0 for
\* N = 0; for to_base = 1 it is N ones, or the single digit 0 for N = 0; and a
\* tally of n ones in base 1 has N = n.
C5_Exact ==
    pc = "done" =>
        LET d == number.val
            r == result.val
            N == Horner(d, input_base)
        IN  /\ N = 0 => r = <<D(0)>>
            /\ (N >= 1 /\ output_base = 1) => r = Ones(N)
            /\ (N >= 1 /\ output_base >= 2) =>
                   /\ r[1] # D(0)
                   /\ \A i \in 1..Len(r) : r[i][2] >= 0 /\ r[i][2] < output_base
                   /\ Horner(r, output_base) = N
            /\ (input_base = 1 /\ d = Ones(Len(d)) /\ Len(d) >= 1) =>
                   IF output_base = 1 THEN r = d ELSE Horner(r, output_base) = Len(d)

\* a number of several digits in a base >= 2 became a tally
C5_Witness ==
    /\ pc = "done" /\ input_base >= 2 /\ output_base = 1
    /\ Len(number.val) >= 2 /\ number.val[1] # D(0)
    /\ Len(result.val) > input_base
    /\ result.val = Ones(Len(result.val))

-----------------------------------------------------------------------------
(* C6: invalid digits *)

TooHigh(t, b) == \E i \in 1..Len(t) : IsInt(t[i]) /\ t[i][2] >= b

\* C6: for input_base >= 2 and an input given as digits (tuple or string), base()
\* raises ValueError whenever some digit is >= input_base, whatever the other
\* arguments, and raises none when every digit is in 0..input_base-1.
C6_InvalidDigitRaises ==
    (pc = "done" /\ DigitInput /\ input_base >= 2) =>
        /\ TooHigh(InputDigits, input_base) => result.kind = "ValueError"
        /\ DigitsBelow(InputDigits, input_base) => result.kind # "ValueError"

\* a string whose only bad digit comes after the point was refused
C6_Witness ==
    /\ pc = "done" /\ number.type = "str" /\ input_base >= 2
    /\ ~TooHigh(IntegerDigits(InputDigits), input_base)
    /\ TooHigh(InputDigits, input_base)
    /\ string /\ recurring
    /\ result.kind = "ValueError"

-----------------------------------------------------------------------------
(* C7: base 1 *)

\* C7: with input_base = 1 an input holding any digit other than 1, the digit 0
\* included, is refused with ValueError.
C7_UnaryOnlyOnes ==
    (pc = "done" /\ DigitInput /\ input_base = 1
        /\ \E i \in 1..Len(InputDigits) : IsInt(InputDigits[i]) /\ InputDigits[i] # D(1))
    => result.kind = "ValueError"

-----------------------------------------------------------------------------
(* C8: negative input *)

NegativeInput ==
    CASE number.type \in {"int", "float"} -> number.val[1][2] < 0
      [] number.type = "str" -> number.val # <<>> /\ number.val[1] = Minus
      [] number.type = "tuple" ->
             \E i \in 1..Len(number.val) : IsInt(number.val[i]) /\ number.val[i][2] < 0

\* C8: a negative input (a negative int or float, a string with a leading '-', a
\* tuple holding a negative digit) makes base() raise; no digit sequence is
\* returned.
C8_NegativeRaises ==
    (pc = "done" /\ NegativeInput) => result.kind \notin {"tuple", "str"}

-----------------------------------------------------------------------------
(* C9: an int or float given directly *)
NumberInput == number.type \in {"int", "float"}

RECURSIVE DecimalDigits(_)
DecimalDigits(n) ==
    IF n < 10 THEN <<D(n)>> ELSE DecimalDigits(n \div 10) \o <<D(n % 10)>>

\* the decimal digits of a non-negative int, or of a float given in tenths
DecimalTuple(num) ==
    LET v == num.val[1][2]
    IN  IF num.type = "int" THEN DecimalDigits(v)
        ELSE DecimalDigits(v \div 10) \o <<Dot, D(v % 10)>>

-----------------------------------------------------------------------------
(* C10: max_depth *)

InputTuple == IF NumberInput THEN represent_as_tuple(str(number)) ELSE InputDigits
NonNegative(t) == \A i \in 1..Len(t) : IsInt(t[i]) => t[i][2] >= 0

\* C10: for every valid input (no ValueError, no negative digit), all bases and
\* every max_depth, the result has at most max_depth digits after the point,
\* those between the markers counted, recurring or not; and with recurring=False
\* it carries no marker.
C10_DepthBound ==
    (pc = "done" /\ result.kind # "ValueError" /\ NonNegative(InputTuple)) =>
        /\ Len(FractionDigits(ResultDigits)) <= max_depth
        /\ ~recurring => ~HasMarkers(ResultDigits)

\* an endless fraction was cut at max_depth digits and then folded into a pattern
C10_Witness ==
    /\ pc = "done" /\ DigitInput /\ ~HasMarkers(InputDigits)
    /\ input_base >= 2 /\ output_base >= 2
    /\ DigitsBelow(InputDigits, input_base)
    /\ \A k \in Depths : ~ExactIn(InputDigits, input_base, output_base, k)
    /\ recurring /\ result.kind = "str"
    /\ HasMarkers(ResultDigits)
    /\ Len(FractionDigits(ResultDigits)) < max_depth

-----------------------------------------------------------------------------
(* C11: a result without fractional content *)

\* a valid input with a radix point and no markers, bases >= 2
C11_Case ==
    /\ pc = "done"
    /\ DigitInput /\ ~HasMarkers(InputDigits)
    /\ input_base >= 2 /\ output_base >= 2
    /\ DigitsBelow(InputDigits, input_base)
    /\ Contains(InputDigits, Dot)

\* the converted fractional half has no nonzero digit: the first max_depth digits
\* of the fraction in the output base are all 0
C11_NoFraction == Floor(PlainDigits(InputDigits), input_base, output_base, max_depth) = 0

\* C11: a result with no fractional content is the integer part only: whenever
\* the converted fractional half has no nonzero digit (an input such as "1.0" or
\* "5.", max_depth = 0, every extracted digit 0), the output of base() is
\* exactly the digits of the integer part, with no radix point; and an empty
\* input integer part (".5") comes out as a single 0 before the radix point.
C11_IntegerPartOnly ==
    C11_Case =>
        /\ result.kind # "ValueError"
        /\ (C11_NoFraction /\ IntegerDigits(InputDigits) # <<>>) =>
               /\ ~Contains(ResultDigits, Dot)
               /\ ResultDigits = integer_base(IntegerDigits(InputDigits), input_base, output_base)
        /\ (~C11_NoFraction /\ IntegerDigits(InputDigits) = <<>>) =>
               /\ Len(ResultDigits) >= 2
               /\ ResultDigits[1] = D(0)
               /\ ResultDigits[2] = Dot

-----------------------------------------------------------------------------
(* C12: the digit codec *)

\* C12: the digit codec round-trips: every digit value n in 0..199 is rendered
\* as one character that is none of '.', '[', ']' and that reads back as n; so
\* every sequence t of such digits and the three markers has
\* represent_as_tuple(represent_as_string(t)) = t, and base() of the string
\* returns what base() of t returns for the same remaining arguments.
C12_CodecRoundTrip ==
    /\ pc # "ready" =>
           /\ Len(result.val) = Len(number.val)
           /\ \A i \in 1..Len(number.val) :
                  IF number.val[i] \in keep THEN result.val[i] = number.val[i]
                  ELSE /\ result.val[i] \notin keep
                       /\ str_digit_to_int(result.val[i]) = number.val[i][2]
    /\ pc = "decoded" => back.val = number.val
    /\ pc = "converted" =>
           back = base(number, input_base, output_base, max_depth, string, recurring)

\* a number with a digit from each of the letter ranges was converted from its
\* string, to a string
C12_Witness ==
    /\ pc = "converted"
    /\ \E i, j \in 1..Len(number.val) :
           /\ IsInt(number.val[i]) /\ number.val[i][2] >= 10 /\ number.val[i][2] < 36
           /\ IsInt(number.val[j]) /\ number.val[j][2] >= 36
    /\ Contains(number.val, Dot)
    /\ output_base = 10 /\ max_depth = 1 /\ string
    /\ back.kind = "str"
    /\ Contains(back.val, Dot)
    /\ back = base(number, input_base, output_base, max_depth, string, recurring)

-----------------------------------------------------------------------------
(* C13: a BaseConverter called repeatedly *)

\* C13: a BaseConverter can be called again and again without interference:
\* after any sequence of calls, those that raise included, its attributes
\* input_base, output_base, max_depth, string and recurring are what they were,
\* and each call b(x) returns exactly what base(x, input_base, output_base,
\* max_depth, string, recurring) returns, whatever was called before.
C13_NoInterference ==
    /\ [](pc = "called" =>
              result = base(number, input_base, output_base, max_depth, string, recurring))
    /\ [][UNCHANGED <<input_base, output_base, max_depth, string, recurring>>]_vars

\* a call returned a fraction, as a string, after the call before it had raised
C13_Witness ==
    /\ pc = "called"
    /\ back.kind = "ValueError"
    /\ input_base >= 2 /\ output_base >= 2 /\ input_base # output_base
    /\ result.kind = "str"
    /\ FractionDigits(ResultDigits) # <<>>
    /\ result = base(number, input_base, output_base, max_depth, string, recurring)

-----------------------------------------------------------------------------
(* C14: the pattern find_recurring selects *)

\* the j-th block of p digits from the end of f, the last p digits being block 0
Block(f, p, j) == SubSeq(f, Len(f) - (j + 1) * p + 1, Len(f) - j * p)

\* the consecutive copies of the last p digits that immediately precede them
RepeatCount(f, p) ==
    LET copies == {k \in 0..((Len(f) \div p) - 1) :
                       \A j \in 1..k : Block(f, p, j) = Block(f, p, 0)}
    IN  CHOOSE k \in copies : \A m \in copies : m <= k

Rank(f, p) == p * RepeatCount(f, p)

\* the smallest period of the highest rank
ChosenPeriod(f) ==
    CHOOSE p \in 1..Len(f) :
        /\ \A q \in 1..Len(f) : Rank(f, q) <= Rank(f, p)
        /\ \A q \in 1..(p - 1) : Rank(f, q) < Rank(f, p)

\* C14: find_recurring selects the pattern by maximum rank: over the periods
\* p = 1..len of the fractional digits, with repeat_count(p) the number of
\* consecutive copies of the last p digits that immediately precede them, the
\* chosen period is the smallest p that maximises p * repeat_count(p); for
\* min_repeat >= 1 markers are emitted if and only if the chosen period's
\* repeat_count >= min_repeat, otherwise the number is returned unchanged, and
\* the bracketed pattern has exactly the chosen period's length.
C14_MaximumRank ==
    (pc = "done" /\ min_repeat >= 1 /\ FractionDigits(number.val) # <<>>) =>
        LET f == FractionDigits(number.val)
            p == ChosenPeriod(f)
        IN  IF RepeatCount(f, p) >= min_repeat
            THEN /\ Contains(result.val, LBr)
                 /\ result.val[Len(result.val)] = RBr
                 /\ Len(PatternDigits(result.val)) = p
            ELSE result.val = number.val

\* a number came back unchanged although a period of lower rank repeats
\* min_repeat times
C14_Witness ==
    /\ pc = "done" /\ min_repeat >= 1 /\ FractionDigits(number.val) # <<>>
    /\ LET f == FractionDigits(number.val)
       IN  /\ RepeatCount(f, ChosenPeriod(f)) < min_repeat
           /\ \E q \in 1..Len(f) : RepeatCount(f, q) >= min_repeat
    /\ result.val = number.val

=============================================================================
